---- MODULE Spec2Model ----
(***************************************************************************)
(* Model of the Table component of custom-react-table                      *)
(* (src/src/components/Table/Table.js): its React state, the effects that  *)
(* derive the categories, the formatted, filtered and separated content,   *)
(* and the handlers of the search input, the sort buttons, the page-size   *)
(* select and the page navigation.                                         *)
(*                                                                         *)
(* A state of the model is a settled state of the component: every action  *)
(* runs a handler or a change of props together with the whole chain of    *)
(* effects that React flushes after it.                                    *)
(***************************************************************************)
EXTENDS Integers, Sequences, FiniteSets, TLC

VARIABLES
    content,           \* prop content: the array of row objects
    objectKey,         \* prop objectKey: an object, or undefined when not passed
    formattedContent,  \* set by removeObjects; null only until the effects of the mount have run
    filteredContent,   \* set by the effect of 89-91, the search input and the sort buttons
    separatedContent,  \* set by separatePages
    categories,        \* useState([]), set by defineCategories
    sorting,           \* useState({}), set by defineCategories and toggleSortOrder
    rowsDisplayed,     \* useState(10), set by the select (its value is a string)
    currentPage,       \* useState(0)
    query,             \* the text held by the uncontrolled search input
    mounted,           \* FALSE once an error thrown in an effect has unmounted the tree
    raised,            \* TRUE when the last handler or effect threw a TypeError
    color,             \* prop color: a string, or undefined when not passed
    colorTheme         \* useState of 21-25, set by customColorTheme

vars == <<content, objectKey, formattedContent, filteredContent, separatedContent,
          categories, sorting, rowsDisplayed, currentPage, query, mounted, raised,
          color, colorTheme>>

(***************************************************************************)
(* Bounds of the model.                                                    *)
(***************************************************************************)
\* largest number of rows of a content of the table
MaxRows == 23
\* largest number of rows handed to separatePages on its own
MaxPaginateRows == 102
\* largest number of letters of a property name handed to defineCategories on its own
MaxKeyLen == 4

(***************************************************************************)
(* JavaScript values.  A string is a sequence of one-character strings.    *)
(***************************************************************************)
JSString(s) == [t |-> "string", s |-> s]
JSNumber(n) == [t |-> "number", n |-> n]
JSObject(ref, props) == [t |-> "object", ref |-> ref, props |-> props]
Undefined == [t |-> "undefined"]

\* the characters strings are made of; an upper-case and a lower-case form of each letter
LowerChars == <<"a", "b", "m", "n">>
UpperChars == <<"A", "B", "M", "N">>
Digits == <<"0", "1", "2", "3", "4", "5", "6", "7", "8", "9">>

\* position of the first occurrence of e in seq, 0 when there is none
IndexOf(seq, e) == IF \E i \in 1..Len(seq) : seq[i] = e
                   THEN CHOOSE i \in 1..Len(seq) :
                            seq[i] = e /\ \A j \in 1..(i - 1) : seq[j] # e
                   ELSE 0

\* every character of the model
Chars == {LowerChars[i] : i \in 1..Len(LowerChars)} \cup {UpperChars[i] : i \in 1..Len(UpperChars)}
            \cup {Digits[i] : i \in 1..Len(Digits)} \cup {" "}

\* String.prototype.toLowerCase, character by character
LowerCaseOf == [c \in Chars |-> IF IndexOf(UpperChars, c) # 0 THEN LowerChars[IndexOf(UpperChars, c)] ELSE c]
CharToLowerCase(c) == LowerCaseOf[c]
ToLowerCase(s) == [i \in 1..Len(s) |-> CharToLowerCase(s[i])]

\* String.prototype.includes: sub occurs in s at some position
StringIncludes(s, sub) ==
    \E i \in 0..(Len(s) - Len(sub)) : \A j \in 1..Len(sub) : s[i + j] = sub[j]

\* Array.prototype.includes
ArrayIncludes(arr, e) == \E i \in 1..Len(arr) : arr[i] = e

\* rank of a character in the collation localeCompare uses on lower-cased strings
RankOf == [c \in Chars |-> IF c = " " THEN 0
                           ELSE IF IndexOf(Digits, c) # 0 THEN IndexOf(Digits, c)
                           ELSE IF IndexOf(LowerChars, c) # 0 THEN 10 + 2 * IndexOf(LowerChars, c)
                           ELSE 11 + 2 * IndexOf(UpperChars, c)]
CharRank(c) == RankOf[c]

\* String.prototype.localeCompare: negative, zero or positive
RECURSIVE LocaleCompare(_, _)
LocaleCompare(a, b) ==
    IF Len(a) = 0 THEN (IF Len(b) = 0 THEN 0 ELSE -1)
    ELSE IF Len(b) = 0 THEN 1
    ELSE IF CharRank(Head(a)) < CharRank(Head(b)) THEN -1
    ELSE IF CharRank(Head(a)) > CharRank(Head(b)) THEN 1
    ELSE LocaleCompare(Tail(a), Tail(b))

\* ToNumber of a number or of a string of decimal digits (the value of an <option>)
RECURSIVE DigitsToNumber(_)
DigitsToNumber(s) ==
    IF Len(s) = 0 THEN 0
    ELSE 10 * DigitsToNumber(SubSeq(s, 1, Len(s) - 1)) + (IndexOf(Digits, s[Len(s)]) - 1)
ToNumber(v) == IF v.t = "number" THEN v.n ELSE DigitsToNumber(v.s)

\* Array.prototype.slice(start, end): a negative index counts from the end
SliceIndex(len, k) == IF k < 0 THEN (IF len + k < 0 THEN 0 ELSE len + k)
                      ELSE (IF k > len THEN len ELSE k)
Slice(arr, start, end) == SubSeq(arr, SliceIndex(Len(arr), start) + 1, SliceIndex(Len(arr), end))

(***************************************************************************)
(* separatePages (Table.js 199-207): the pages of the filtered content.    *)
(***************************************************************************)
\* line 203: the page pushed on slices
nextSlice(originalContent, rows) == Slice(originalContent, 0, ToNumber(rows))

\* a slip that keeps the last row: slice(rowsDisplayed - 1)
remainingContentKeepsLast(originalContent, rows) ==
    Slice(originalContent, ToNumber(rows) - 1, Len(originalContent))

\* line 204: what is left of originalContent after the page
remainingContent(originalContent, rows) == Slice(originalContent, ToNumber(rows) - 1, -1)

\* lines 202-205: the while loop
RECURSIVE separatePagesLoop(_, _, _)
separatePagesLoop(originalContent, slices, rows) ==
    IF Len(originalContent) > 0
    THEN separatePagesLoop(remainingContent(originalContent, rows),
                           Append(slices, nextSlice(originalContent, rows)),
                           rows)
    ELSE slices

separatePages(contentArg, rows) == separatePagesLoop(contentArg, <<>>, rows)

(***************************************************************************)
(* Objects: the own properties of an object are a sequence of key/value    *)
(* pairs in insertion order; ref is the identity of the object.            *)
(***************************************************************************)
PropIndex(props, key) == IF \E i \in 1..Len(props) : props[i].k = key
                         THEN CHOOSE i \in 1..Len(props) : props[i].k = key
                         ELSE 0
\* obj[key] on the properties of an object: undefined when the key is absent
GetProp(props, key) == IF PropIndex(props, key) # 0 THEN props[PropIndex(props, key)].v ELSE Undefined
\* obj[key] = value: an existing key keeps its position, a new one is added last
SetProp(props, key, value) ==
    IF PropIndex(props, key) # 0
    THEN [props EXCEPT ![PropIndex(props, key)] = [k |-> key, v |-> value]]
    ELSE Append(props, [k |-> key, v |-> value])
HasOwnProperty(obj, key) == PropIndex(obj.props, key) # 0
ObjectValues(obj) == [i \in 1..Len(obj.props) |-> obj.props[i].v]
\* value[key] for any value that is not undefined
Member(value, key) == IF value.t = "object" THEN GetProp(value.props, key) ELSE Undefined

\* String.prototype.toUpperCase, character by character
UpperCaseOf == [c \in Chars |-> IF IndexOf(LowerChars, c) # 0 THEN UpperChars[IndexOf(LowerChars, c)] ELSE c]
CharToUpperCase(c) == UpperCaseOf[c]
\* String.prototype.replace with a one-character pattern: the first occurrence only
ReplaceFirst(s, c, replacement) ==
    IF IndexOf(s, c) = 0 THEN s
    ELSE SubSeq(s, 1, IndexOf(s, c) - 1) \o replacement \o SubSeq(s, IndexOf(s, c) + 1, Len(s))

(***************************************************************************)
(* defineCategories (Table.js 33-60)                                       *)
(***************************************************************************)
\* a slip that pushes a property without looking for it in tempCategories
RECURSIVE collectCategoriesKeepsDuplicates(_, _, _, _)
collectCategoriesKeepsDuplicates(contentArg, i, j, tempCategories) ==
    IF i > Len(contentArg) THEN tempCategories
    ELSE IF j > Len(contentArg[i].props)
         THEN collectCategoriesKeepsDuplicates(contentArg, i + 1, 1, tempCategories)
    ELSE collectCategoriesKeepsDuplicates(contentArg, i, j + 1,
                                          Append(tempCategories, contentArg[i].props[j].k))

\* lines 38-44: content.forEach over the objects from the i-th on, and for..in
\* over the properties of the i-th object from its j-th on
RECURSIVE collectCategories(_, _, _, _)
collectCategories(contentArg, i, j, tempCategories) ==
    IF i > Len(contentArg) THEN tempCategories
    ELSE IF j > Len(contentArg[i].props) THEN collectCategories(contentArg, i + 1, 1, tempCategories)
    ELSE IF ~ArrayIncludes(tempCategories, contentArg[i].props[j].k)
         THEN collectCategories(contentArg, i, j + 1, Append(tempCategories, contentArg[i].props[j].k))
         ELSE collectCategories(contentArg, i, j + 1, tempCategories)

\* lines 47-52: the loop over the letters of the category
RECURSIVE formatLetters(_, _, _)
formatLetters(category, i, formattedCategory) ==
    IF i > Len(category) THEN formattedCategory
    ELSE formatLetters(category, i + 1,
            IF category[i] = CharToUpperCase(category[i])
            THEN ReplaceFirst(category, category[i], <<" ", CharToLowerCase(category[i])>>)
            ELSE formattedCategory)

\* line 53 throws on the empty property name: formattedCategory[0] is undefined
formatCategoryThrows(category) == Len(formatLetters(category, 1, category)) = 0

\* lines 47-53
formatCategory(category) ==
    LET formattedCategory == formatLetters(category, 1, category)
    IN  ReplaceFirst(formattedCategory, formattedCategory[1], <<CharToUpperCase(formattedCategory[1])>>)

tempCategoriesOf(contentArg) == collectCategories(contentArg, 1, 1, <<>>)

defineCategoriesThrows(contentArg) ==
    LET tempCategories == tempCategoriesOf(contentArg)
    IN  \E i \in 1..Len(tempCategories) : formatCategoryThrows(tempCategories[i])

\* line 58: the value passed to setCategories
formattedCategoriesOf(contentArg) ==
    LET tempCategories == tempCategoriesOf(contentArg)
    IN  [i \in 1..Len(tempCategories) |->
            [category |-> tempCategories[i],
             formattedCategory |-> formatCategory(tempCategories[i])]]

\* line 59: the value passed to setSorting
initSortingOf(contentArg) ==
    LET tempCategories == tempCategoriesOf(contentArg)
    IN  [i \in 1..Len(tempCategories) |-> [k |-> tempCategories[i], v |-> "none"]]

(***************************************************************************)
(* removeObjects (Table.js 67-83)                                          *)
(***************************************************************************)
\* line 73 throws when objectKey is undefined, line 75 when object[property] is
\* undefined
removeObjectsThrows(contentArg, objectKeyArg) ==
    \E i \in 1..Len(contentArg) : \E j \in 1..Len(contentArg[i].props) :
        \/ objectKeyArg.t = "undefined"
        \/ /\ HasOwnProperty(objectKeyArg, contentArg[i].props[j].k)
           /\ contentArg[i].props[j].v.t = "undefined"

\* a slip that copies every property as it is
removeObjectsRowKeepsObjects(object, objectKeyArg) == object

removeObjectsRow(object, objectKeyArg) ==
    JSObject(object.ref,
        [j \in 1..Len(object.props) |->
            [k |-> object.props[j].k,
             v |-> IF HasOwnProperty(objectKeyArg, object.props[j].k)
                   THEN Member(object.props[j].v, GetProp(objectKeyArg.props, object.props[j].k))
                   ELSE object.props[j].v]])

\* the value passed to setFormattedContent
removeObjects(contentArg, objectKeyArg) ==
    [i \in 1..Len(contentArg) |-> removeObjectsRow(contentArg[i], objectKeyArg)]

(***************************************************************************)
(* sortContent (Table.js 143-151)                                          *)
(***************************************************************************)
\* a slip that compares in the order the category has before the toggle
sortsAscendingBeforeToggle(sortingArg, category, toggleOrder) ==
    GetProp(sortingArg, category) = "ascending"

\* line 145: the comparator compares in ascending order
sortsAscending(sortingArg, category, toggleOrder) ==
    \/ /\ GetProp(sortingArg, category) \in {"none", "descending"}
       /\ toggleOrder
    \/ /\ GetProp(sortingArg, category) = "ascending"
       /\ ~toggleOrder

\* lines 145-149: the comparator, on two rows that hold a string in the category
sortComparator(a, b, sortingArg, category, toggleOrder) ==
    IF sortsAscending(sortingArg, category, toggleOrder)
    THEN LocaleCompare(ToLowerCase(GetProp(a.props, category).s), ToLowerCase(GetProp(b.props, category).s))
    ELSE LocaleCompare(ToLowerCase(GetProp(b.props, category).s), ToLowerCase(GetProp(a.props, category).s))

\* Array.prototype.sort is stable: a row goes after every row that does not
\* compare greater than it
RECURSIVE sortInsert(_, _, _, _, _)
sortInsert(sorted, row, sortingArg, category, toggleOrder) ==
    IF Len(sorted) = 0 THEN <<row>>
    ELSE IF sortComparator(sorted[Len(sorted)], row, sortingArg, category, toggleOrder) > 0
         THEN Append(sortInsert(SubSeq(sorted, 1, Len(sorted) - 1), row, sortingArg, category, toggleOrder),
                     sorted[Len(sorted)])
         ELSE Append(sorted, row)

\* the first n rows of arr, sorted
RECURSIVE sortLoop(_, _, _, _, _)
sortLoop(arr, n, sortingArg, category, toggleOrder) ==
    IF n = 0 THEN <<>>
    ELSE sortInsert(sortLoop(arr, n - 1, sortingArg, category, toggleOrder), arr[n],
                    sortingArg, category, toggleOrder)

\* the comparator runs on every row once there are two rows, and throws on
\* a[category].toLowerCase() when the value is not a string
sortContentThrows(contentArg, category) ==
    /\ Len(contentArg) >= 2
    /\ \E i \in 1..Len(contentArg) : GetProp(contentArg[i].props, category).t # "string"

sortContent(contentArg, category, toggleOrder, sortingArg) ==
    sortLoop(contentArg, Len(contentArg), sortingArg, category, toggleOrder)

(***************************************************************************)
(* toggleSortOrder (Table.js 158-169): the value passed to setSorting      *)
(***************************************************************************)
\* a slip that leaves the other categories as they are
toggleSortOrderKeepsOthers(sortingArg, category) ==
    SetProp(sortingArg, category,
            IF GetProp(sortingArg, category) \in {"none", "descending"}
            THEN "ascending"
            ELSE "descending")

\* a slip that goes from descending back to none
toggleSortOrderBackToNone(sortingArg, category) ==
    SetProp([i \in 1..Len(sortingArg) |-> [k |-> sortingArg[i].k, v |-> "none"]],
            category,
            IF GetProp(sortingArg, category) = "none" THEN "ascending"
            ELSE IF GetProp(sortingArg, category) = "ascending" THEN "descending"
            ELSE "none")

toggleSortOrder(sortingArg, category) ==
    SetProp([i \in 1..Len(sortingArg) |-> [k |-> sortingArg[i].k, v |-> "none"]],
            category,
            IF GetProp(sortingArg, category) \in {"none", "descending"}
            THEN "ascending"
            ELSE "descending")

(***************************************************************************)
(* filterContent (Table.js 177-191)                                        *)
(***************************************************************************)
\* a slip that lower-cases the values but not the query
filterRowKeepsQueryCase(row, queryArg) ==
    ArrayIncludes([i \in 1..Len(ObjectValues(row)) |->
                      StringIncludes(ToLowerCase(ObjectValues(row)[i].s), queryArg)],
                  TRUE)

\* lines 179-181: the callback of content.filter
filterRow(row, queryArg) ==
    ArrayIncludes([i \in 1..Len(ObjectValues(row)) |->
                      StringIncludes(ToLowerCase(ObjectValues(row)[i].s), ToLowerCase(queryArg))],
                  TRUE)

\* lines 178-182
filterRows(queryArg, contentArg) == SelectSeq(contentArg, LAMBDA row : filterRow(row, queryArg))

\* lines 184-188: the first category of sorting that is not "none", 0 when there is none
activeSortIndex(sortingArg) ==
    IF \E i \in 1..Len(sortingArg) : sortingArg[i].v # "none"
    THEN CHOOSE i \in 1..Len(sortingArg) :
            /\ sortingArg[i].v # "none"
            /\ \A j \in 1..(i - 1) : sortingArg[j].v = "none"
    ELSE 0

\* line 180 throws on value.toLowerCase() when a value is not a string, line 186
\* when sortContent does
filterContentThrows(queryArg, contentArg, sortingArg) ==
    \/ \E i \in 1..Len(contentArg) : \E j \in 1..Len(contentArg[i].props) :
            contentArg[i].props[j].v.t # "string"
    \/ /\ activeSortIndex(sortingArg) # 0
       /\ sortContentThrows(filterRows(queryArg, contentArg), sortingArg[activeSortIndex(sortingArg)].k)

\* a slip that returns the filtered rows without sorting them again
filterContentDropsSort(queryArg, contentArg, sortingArg) == filterRows(queryArg, contentArg)

filterContent(queryArg, contentArg, sortingArg) ==
    IF activeSortIndex(sortingArg) # 0
    THEN sortContent(filterRows(queryArg, contentArg), sortingArg[activeSortIndex(sortingArg)].k,
                     FALSE, sortingArg)
    ELSE filterRows(queryArg, contentArg)

(***************************************************************************)
(* customColorTheme (Table.js 98-127) and the effect that calls it.        *)
(***************************************************************************)
NaN == [t |-> "NaN"]

\* the characters of the class [0-9a-zA-Z] of hexRegex (line 130)
HexPatternChars ==
    {"0", "1", "2", "3", "4", "5", "6", "7", "8", "9",
     "a", "b", "c", "d", "e", "f", "g", "h", "i", "j", "k", "l", "m",
     "n", "o", "p", "q", "r", "s", "t", "u", "v", "w", "x", "y", "z",
     "A", "B", "C", "D", "E", "F", "G", "H", "I", "J", "K", "L", "M",
     "N", "O", "P", "Q", "R", "S", "T", "U", "V", "W", "X", "Y", "Z"}

\* hexRegex.test(color): # and three or six characters of the class; undefined
\* is tested as the text undefined
hexRegexTest(colorArg) ==
    /\ colorArg.t = "string"
    /\ Len(colorArg.s) \in {4, 7}
    /\ colorArg.s[1] = "#"
    /\ \A i \in 2..Len(colorArg.s) : colorArg.s[i] \in HexPatternChars

\* the value of a digit in base 16, -1 for a character that is no such digit
HexDigitValue(c) ==
    IF IndexOf(Digits, c) # 0 THEN IndexOf(Digits, c) - 1
    ELSE IF IndexOf(<<"a", "b", "c", "d", "e", "f">>, c) # 0
         THEN 9 + IndexOf(<<"a", "b", "c", "d", "e", "f">>, c)
    ELSE IF IndexOf(<<"A", "B", "C", "D", "E", "F">>, c) # 0
         THEN 9 + IndexOf(<<"A", "B", "C", "D", "E", "F">>, c)
    ELSE -1

\* parseInt(s, 16) of a text of two characters: the digits before the first
\* character that is no digit, NaN when there is none
ParseInt16(s) ==
    IF Len(s) = 0 \/ HexDigitValue(s[1]) < 0 THEN NaN
    ELSE IF Len(s) = 1 \/ HexDigitValue(s[2]) < 0 THEN JSNumber(HexDigitValue(s[1]))
    ELSE JSNumber(16 * HexDigitValue(s[1]) + HexDigitValue(s[2]))

\* the text of a number in a template literal
RECURSIVE NaturalToString(_)
NaturalToString(n) ==
    IF n < 10 THEN <<Digits[n + 1]>>
    ELSE NaturalToString(n \div 10) \o <<Digits[(n % 10) + 1]>>
NumberToString(v) == IF v.t = "NaN" THEN <<"N", "a", "N">> ELSE NaturalToString(v.n)

\* lines 112-113: the template literal rgba(r, g, b, alpha)
Rgba(r, g, b, alpha) ==
    <<"r", "g", "b", "a", "(">> \o NumberToString(r) \o <<",", " ">> \o NumberToString(g)
        \o <<",", " ">> \o NumberToString(b) \o <<",", " ">> \o alpha \o <<")">>

\* line 105: the i-th letter of hex is replaced in newHex, where it first occurs
doubleLetter(hex, i, newHex) == ReplaceFirst(newHex, hex[i], <<hex[i], hex[i]>>)

\* lines 103-107: the loop over the letters of hex from the i-th on
RECURSIVE expandLetters(_, _, _)
expandLetters(hex, i, newHex) ==
    IF i > Len(hex) THEN newHex
    ELSE expandLetters(hex, i + 1, IF hex[i] # "#" THEN doubleLetter(hex, i, newHex) ELSE newHex)

\* lines 99-108
expandShorthand(hex) == IF Len(hex) = 4 THEN expandLetters(hex, 1, hex) ELSE hex

\* lines 115-120: relativeLuminance > 0.5, on integers (times 255 * 10000); a
\* comparison with NaN is false
textIsBlack(r, g, b) ==
    /\ r.t = "number" /\ g.t = "number" /\ b.t = "number"
    /\ 2126 * r.n + 7152 * g.n + 722 * b.n > 1275000

\* the value passed to setColorTheme (lines 122-126)
customColorTheme(hex) ==
    LET newHex == expandShorthand(hex)
        r == ParseInt16(Slice(newHex, 1, 3))
        g == ParseInt16(Slice(newHex, 3, 5))
        b == ParseInt16(Slice(newHex, 5, 7))
    IN  [bright |-> Rgba(r, g, b, <<"1">>),
         light |-> Rgba(r, g, b, <<"0", ".", "2">>),
         text |-> IF textIsBlack(r, g, b) THEN "black" ELSE "white"]

\* the initial colorTheme (lines 21-25)
DefaultColorTheme ==
    [bright |-> Rgba(JSNumber(139), JSNumber(134), JSNumber(128), <<"1">>),
     light |-> Rgba(JSNumber(139), JSNumber(134), JSNumber(128), <<"0", ".", "2">>),
     text |-> "white"]

\* the effect of 129-134: the theme after the effect ran with the color
colorEffect(colorArg, theme) ==
    IF hexRegexTest(colorArg) THEN customColorTheme(colorArg.s) ELSE theme

(***************************************************************************)
(* The inputs of the model: contents, object keys, queries, page sizes.    *)
(***************************************************************************)
KeyAnimal == <<"a">>
KeyFood == <<"m", "B">>
SubKeyPast == <<"m">>
SubKeyCurrent == <<"n">>

Prop(key, value) == [k |-> key, v |-> value]

\* the properties of the rows contents are made of
RowShapes == <<
    <<Prop(KeyAnimal, JSString(<<"M", "a", "n">>)), Prop(KeyFood, JSString(<<"b">>))>>,
    <<Prop(KeyAnimal, JSString(<<"a", "b">>)), Prop(KeyFood, JSString(<<"B", "a">>))>>,
    <<Prop(KeyAnimal, JSString(<<"A", "B">>)), Prop(KeyFood, JSString(<<"a", "n">>))>>,
    <<Prop(KeyFood, JSString(<<"n">>)), Prop(KeyAnimal, JSString(<<"b", "a">>))>>,
    <<>>,
    <<Prop(KeyAnimal, JSString(<<"n", "a", "b">>))>>,
    <<Prop(KeyAnimal, JSNumber(42)), Prop(KeyFood, JSString(<<"m">>))>>,
    <<Prop(KeyAnimal, JSObject(0, <<Prop(SubKeyPast, JSString(<<"a", "m">>)),
                                    Prop(SubKeyCurrent, JSString(<<"N">>))>>)),
      Prop(KeyFood, JSString(<<"A">>))>>,
    <<Prop(KeyAnimal, JSObject(0, <<Prop(SubKeyCurrent, JSString(<<"N">>))>>))>>,
    <<Prop(KeyAnimal, JSObject(0, <<Prop(SubKeyPast,
                                         JSObject(0, <<Prop(SubKeyPast, JSString(<<"a", "m">>))>>))>>)),
      Prop(KeyFood, JSString(<<"A">>))>> >>

\* the content of n rows that repeats the row shapes in the order of the pattern
ContentOf(n, pattern) ==
    [i \in 1..n |-> JSObject(i, RowShapes[pattern[((i - 1) % Len(pattern)) + 1]])]

NoObjectKey == JSObject(0, <<>>)
AnimalObjectKey == JSObject(0, <<Prop(KeyAnimal, SubKeyPast)>>)

\* the props the table is rendered with: a content and an objectKey.  The
\* contents have no row, less than a page, one row more than a page, and more
\* than two pages; their rows hold strings, and some of them a missing
\* property, no property at all, a number or a sub-object (with and without
\* the sub-key of the objectKey, and with a sub-object of its own).
PropsChoices == {
    <<ContentOf(0, <<1>>), NoObjectKey>>,
    <<ContentOf(MaxRows, <<1, 2, 3, 4>>), NoObjectKey>>,
    <<ContentOf(11, <<4, 4, 1>>), NoObjectKey>>,
    <<ContentOf(3, <<2, 5, 1>>), NoObjectKey>>,
    <<ContentOf(2, <<6, 1>>), NoObjectKey>>,
    <<ContentOf(12, <<1, 7>>), NoObjectKey>>,
    <<ContentOf(3, <<8>>), AnimalObjectKey>>,
    <<ContentOf(4, <<8, 8, 8, 2>>), AnimalObjectKey>>,
    <<ContentOf(2, <<8, 1>>), NoObjectKey>>,
    <<ContentOf(3, <<9, 10, 8>>), AnimalObjectKey>>,
    <<ContentOf(2, <<1, 2>>), Undefined>>,
    <<ContentOf(0, <<1>>), Undefined>>,
    <<ContentOf(1, <<5>>), Undefined>> }

Queries == { <<>>, <<"a">>, <<"A", "b">>, <<"m", "a", "n">>, <<"M", "A", "N">>, <<"n">>, <<"4">> }

\* the values of the <option>s of the select (Table.js 246-249)
PageSizeOptions == { JSString(<<"1", "0">>), JSString(<<"2", "5">>),
                     JSString(<<"5", "0">>), JSString(<<"1", "0", "0">>) }

(***************************************************************************)
(* The effects.                                                            *)
(***************************************************************************)
\* an error thrown in an effect unmounts the tree: the component has no state left
\* (the variables take the values of an empty table)
Unmount ==
    /\ mounted' = FALSE
    /\ raised' = TRUE
    /\ formattedContent' = <<>>
    /\ filteredContent' = <<>>
    /\ separatedContent' = <<>>
    /\ categories' = <<>>
    /\ sorting' = <<>>
    /\ rowsDisplayed' = JSNumber(10)
    /\ currentPage' = 0
    /\ query' = <<>>
    /\ colorTheme' = DefaultColorTheme
    /\ UNCHANGED color

\* a slip that repaginates without going back to the first page
separatePagesEffectKeepsPage(filteredContentArg, rowsArg) ==
    /\ UNCHANGED currentPage
    /\ separatedContent' = separatePages(filteredContentArg, rowsArg)

\* the effect of Table.js 193-213, run after filteredContent or rowsDisplayed changed;
\* filteredContent is an array (truthy) once the effects of the mount have run
separatePagesEffect(filteredContentArg, rowsArg) ==
    /\ currentPage' = 0
    /\ separatedContent' = separatePages(filteredContentArg, rowsArg)

\* the effects of Table.js 27-87 and 89-91, run after content or objectKey changed,
\* and the effect of 193-213 that the new filteredContent triggers
contentEffects(contentArg, objectKeyArg, rowsArg) ==
    IF defineCategoriesThrows(contentArg) \/ removeObjectsThrows(contentArg, objectKeyArg)
    THEN Unmount
    ELSE /\ categories' = formattedCategoriesOf(contentArg)
         /\ sorting' = initSortingOf(contentArg)
         /\ formattedContent' = removeObjects(contentArg, objectKeyArg)
         /\ filteredContent' = formattedContent'
         /\ separatePagesEffect(filteredContent', rowsArg)
         /\ mounted' = TRUE
         /\ raised' = FALSE
         /\ UNCHANGED <<rowsDisplayed, query, color, colorTheme>>

(***************************************************************************)
(* The state after the component is mounted with its props.                *)
(***************************************************************************)
InitWithColor(contentArg, objectKeyArg, colorArg) ==
    /\ content = contentArg
    /\ objectKey = objectKeyArg
    /\ color = colorArg
    /\ colorTheme = colorEffect(color, DefaultColorTheme)
    /\ rowsDisplayed = JSNumber(10)
    /\ query = <<>>
    /\ IF defineCategoriesThrows(contentArg) \/ removeObjectsThrows(contentArg, objectKeyArg)
       THEN /\ mounted = FALSE
            /\ raised = TRUE
            /\ formattedContent = <<>>
            /\ filteredContent = <<>>
            /\ separatedContent = <<>>
            /\ categories = <<>>
            /\ sorting = <<>>
            /\ currentPage = 0
       ELSE /\ mounted = TRUE
            /\ raised = FALSE
            /\ categories = formattedCategoriesOf(contentArg)
            /\ sorting = initSortingOf(contentArg)
            /\ formattedContent = removeObjects(contentArg, objectKeyArg)
            /\ filteredContent = formattedContent
            /\ currentPage = 0
            /\ separatedContent = separatePages(filteredContent, rowsDisplayed)

\* the table is rendered without the prop color
InitOf(contentArg, objectKeyArg) == InitWithColor(contentArg, objectKeyArg, Undefined)

Init == \E props \in PropsChoices : InitOf(props[1], props[2])

(***************************************************************************)
(* The operations.                                                         *)
(***************************************************************************)
\* the parent renders the table with a new content or a new objectKey
ReplaceContent(contentArg, objectKeyArg) ==
    /\ mounted
    /\ content' = contentArg
    /\ objectKey' = objectKeyArg
    /\ contentEffects(contentArg, objectKeyArg, rowsDisplayed)

\* onChange of the search input (Table.js 255-257)
SetFilterQuery(queryArg) ==
    /\ mounted
    /\ queryArg # query
    /\ query' = queryArg
    /\ IF filterContentThrows(queryArg, formattedContent, sorting)
       THEN /\ raised' = TRUE
            /\ UNCHANGED <<filteredContent, separatedContent, currentPage>>
       ELSE /\ raised' = FALSE
            /\ filteredContent' = filterContent(queryArg, formattedContent, sorting)
            /\ separatePagesEffect(filteredContent', rowsDisplayed)
    /\ UNCHANGED <<content, objectKey, formattedContent, categories, sorting, rowsDisplayed, mounted>>
    /\ UNCHANGED <<color, colorTheme>>

\* onClick of the sort button of a category (Table.js 265-268)
ToggleSort(category) ==
    /\ mounted
    /\ \E i \in 1..Len(categories) : categories[i].category = category
    /\ IF sortContentThrows(filteredContent, category)
       THEN /\ raised' = TRUE
            /\ UNCHANGED <<filteredContent, sorting, separatedContent, currentPage>>
       ELSE /\ raised' = FALSE
            /\ filteredContent' = sortContent(filteredContent, category, TRUE, sorting)
            /\ sorting' = toggleSortOrder(sorting, category)
            /\ separatePagesEffect(filteredContent', rowsDisplayed)
    /\ UNCHANGED <<content, objectKey, formattedContent, categories, rowsDisplayed, query, mounted>>
    /\ UNCHANGED <<color, colorTheme>>

\* onChange of the select (Table.js 244): the user picks another option
SetPageSize(option) ==
    /\ mounted
    /\ ToNumber(option) # ToNumber(rowsDisplayed)
    /\ rowsDisplayed' = option
    /\ separatePagesEffect(filteredContent, rowsDisplayed')
    /\ raised' = FALSE
    /\ UNCHANGED <<content, objectKey, formattedContent, filteredContent, categories, sorting, query, mounted>>
    /\ UNCHANGED <<color, colorTheme>>

\* a slip that renders the Previous button on the first page too
previousButtonAlwaysRendered == Len(separatedContent) > 0

\* the Previous button exists only away from the first page (Table.js 299-301)
previousButtonRendered ==
    /\ Len(separatedContent) > 0
    /\ currentPage # 0

\* a slip that renders the Next button on the last page too
nextButtonAlwaysRendered == Len(separatedContent) > 0

\* the Next button exists only away from the last page (Table.js 299, 303)
nextButtonRendered ==
    /\ Len(separatedContent) > 0
    /\ currentPage # Len(separatedContent) - 1

\* onClick of the Previous button (Table.js 301); nothing to click on the first page
GoToPreviousPage ==
    /\ mounted
    /\ currentPage' = IF previousButtonRendered THEN currentPage - 1 ELSE currentPage
    /\ raised' = FALSE
    /\ UNCHANGED <<content, objectKey, formattedContent, filteredContent, separatedContent,
                   categories, sorting, rowsDisplayed, query, mounted, color, colorTheme>>

\* onClick of the Next button (Table.js 303); nothing to click on the last page
GoToNextPage ==
    /\ mounted
    /\ currentPage' = IF nextButtonRendered THEN currentPage + 1 ELSE currentPage
    /\ raised' = FALSE
    /\ UNCHANGED <<content, objectKey, formattedContent, filteredContent, separatedContent,
                   categories, sorting, rowsDisplayed, query, mounted, color, colorTheme>>

Next ==
    \/ \E props \in PropsChoices : ReplaceContent(props[1], props[2])
    \/ \E queryArg \in Queries : SetFilterQuery(queryArg)
    \/ \E category \in {KeyAnimal, KeyFood} : ToggleSort(category)
    \/ \E option \in PageSizeOptions : SetPageSize(option)
    \/ GoToPreviousPage
    \/ GoToNextPage

Spec == Init /\ [][Next]_vars

(***************************************************************************)
(* The table of a content of up to MaxPaginateRows rows, under the page    *)
(* size select and the page navigation only.                               *)
(***************************************************************************)
PaginateContent(n) == [i \in 1..n |-> JSObject(i, <<Prop(KeyAnimal, JSString(<<"a">>))>>)]

\* the state after the table is mounted with a content whose rows all hold the
\* one property a: its one category, labelled A, and the content in pages of 10
InitPaginate ==
    \E n \in 0..MaxPaginateRows :
        /\ content = PaginateContent(n)
        /\ objectKey = NoObjectKey
        /\ color = Undefined
        /\ colorTheme = colorEffect(color, DefaultColorTheme)
        /\ rowsDisplayed = JSNumber(10)
        /\ query = <<>>
        /\ mounted = TRUE
        /\ raised = FALSE
        /\ categories = formattedCategoriesOf(PaginateContent(IF n = 0 THEN 0 ELSE 1))
        /\ sorting = initSortingOf(PaginateContent(IF n = 0 THEN 0 ELSE 1))
        /\ formattedContent = removeObjects(content, objectKey)
        /\ filteredContent = formattedContent
        /\ currentPage = 0
        /\ separatedContent = separatePages(filteredContent, rowsDisplayed)

NextPaginate ==
    \/ \E option \in PageSizeOptions : SetPageSize(option)
    \/ GoToPreviousPage
    \/ GoToNextPage

SpecPaginate == InitPaginate /\ [][NextPaginate]_vars

(***************************************************************************)
(* The table of a content of one row with one property, whose name is any  *)
(* camelCase key of up to MaxKeyLen letters: the labels of defineCategories.*)
(***************************************************************************)
LabelLower == {"a", "b"}
LabelLetters == {"a", "b", "A", "B"}

\* the keys that start with a lower-case letter
LabelKeys ==
    UNION {{key \in [1..n -> LabelLetters] : key[1] \in LabelLower} : n \in 1..MaxKeyLen}

LabelContent(key) == <<JSObject(1, <<Prop(key, JSString(<<"a">>))>>)>>

InitLabel == \E key \in LabelKeys : InitOf(LabelContent(key), NoObjectKey)

NextLabel == \E key \in LabelKeys : ReplaceContent(LabelContent(key), NoObjectKey)

SpecLabel == InitLabel /\ [][NextLabel]_vars

(***************************************************************************)
(* The table of an empty content, rendered with one color after the other: *)
(* the themes of customColorTheme.                                         *)
(***************************************************************************)
ColorDigits == {"0", "7", "a", "b", "F"}

\* the shorthand colors #xyz
ShorthandColors == {JSString(<<"#", x, y, z>>) : x \in ColorDigits, y \in ColorDigits, z \in ColorDigits}

\* the colors the table is rendered with: the shorthand ones, two of six
\* digits, one that parseInt does not read, two that hexRegex rejects, and none
Colors ==
    ShorthandColors
        \cup {JSString(<<"#", "5", "7", "7", "3", "9", "9">>),
              JSString(<<"#", "f", "f", "F", "F", "b", "0">>),
              JSString(<<"#", "z", "z", "z">>),
              JSString(<<"#", "a", "b">>),
              JSString(<<"a", "b", "a", "b">>),
              Undefined}

InitColor == \E colorArg \in Colors : InitWithColor(<<>>, NoObjectKey, colorArg)

\* the parent renders the table with another color: the effect of 129-134
SetColor(colorArg) ==
    /\ mounted
    /\ colorArg # color
    /\ color' = colorArg
    /\ colorTheme' = colorEffect(colorArg, colorTheme)
    /\ raised' = FALSE
    /\ UNCHANGED <<content, objectKey, formattedContent, filteredContent, separatedContent,
                   categories, sorting, rowsDisplayed, currentPage, query, mounted>>

NextColor == \E colorArg \in Colors : SetColor(colorArg)

SpecColor == InitColor /\ [][NextColor]_vars

(***************************************************************************)
(* Properties.                                                             *)
(***************************************************************************)
\* the pages, one after the other
RECURSIVE ConcatPages(_, _)
ConcatPages(pages, n) == IF n = 0 THEN <<>> ELSE ConcatPages(pages, n - 1) \o pages[n]

CeilDiv(n, p) == (n + p - 1) \div p

PageSize == ToNumber(rowsDisplayed)
PageCount == Len(separatedContent)

\* C1: the pages partition the filtered content: one after the other they are
\* exactly the filtered content, no row lost, none twice.
C1_PagesPartitionContent ==
    mounted => ConcatPages(separatedContent, PageCount) = filteredContent

\* C2: n rows and page size p give ceil(n/p) pages, each of p rows but the
\* last, which has n - p * (ceil(n/p) - 1) rows.
C2_PageCountAndSizes ==
    mounted =>
        /\ PageCount = CeilDiv(Len(filteredContent), PageSize)
        /\ \A i \in 1..PageCount :
                Len(separatedContent[i]) =
                    IF i < PageCount THEN PageSize
                    ELSE Len(filteredContent) - PageSize * (PageCount - 1)

\* 23 rows in pages of 10: three pages of 10, 10 and 3 rows
C2_Witness ==
    /\ mounted
    /\ Len(filteredContent) = 23
    /\ PageSize = 10
    /\ PageCount = 3
    /\ Len(separatedContent[1]) = 10
    /\ Len(separatedContent[2]) = 10
    /\ Len(separatedContent[3]) = 3

\* C3: in every settled state with at least one page, the current page is one
\* of the pages: 0 <= currentPage < pageCount.
C3_CurrentPageExists ==
    (mounted /\ PageCount > 0) => (0 <= currentPage /\ currentPage < PageCount)

\* the last of three pages is shown
C3_Witness == mounted /\ PageCount = 3 /\ currentPage = 2

\* a step changes the filtered content, the sort state, the props or the page
\* size, or it is a query that the search input has handled
ChangesCollectionOrPageSize ==
    \/ filteredContent' # filteredContent
    \/ sorting' # sorting
    \/ rowsDisplayed' # rowsDisplayed
    \/ content' # content
    \/ objectKey' # objectKey
    \/ (query' # query /\ ~raised')

\* C4: every step that changes the filtered and sorted content or the page
\* size ends on the first page of the pages of the new content, whatever the
\* page before.
C4_ChangeResetsCurrentPage ==
    [][(mounted' /\ ChangesCollectionOrPageSize) =>
          /\ currentPage' = 0
          /\ Len(separatedContent') = CeilDiv(Len(filteredContent'), ToNumber(rowsDisplayed'))]_vars

\* a query has left two pages of a sorted content, shown from the first page
C4_Witness ==
    /\ mounted
    /\ query = <<"n">>
    /\ \E i \in 1..Len(sorting) : sorting[i].v # "none"
    /\ PageCount = 2
    /\ currentPage = 0

\* what the navigation leaves alone
NavigationFrame == UNCHANGED <<filteredContent, separatedContent, sorting, rowsDisplayed>>

\* C5: Previous on the first page and Next on the last page leave the current
\* page as it is and raise nothing; elsewhere they move by one page; the
\* filtered content, the pages, the sort state and the page size stay.
C5_NavigationMovesByOne ==
    [][/\ GoToPreviousPage =>
            /\ currentPage' = (IF currentPage = 0 THEN currentPage ELSE currentPage - 1)
            /\ ~raised'
            /\ NavigationFrame
       /\ GoToNextPage =>
            /\ currentPage' = (IF currentPage + 1 >= PageCount THEN currentPage ELSE currentPage + 1)
            /\ ~raised'
            /\ NavigationFrame]_vars

\* the middle one of three pages is shown
C5_Witness == mounted /\ PageCount = 3 /\ currentPage = 1 /\ ~raised

SortedCategories(sortingArg) == {i \in 1..Len(sortingArg) : sortingArg[i].v # "none"}

\* C6: at most one category of the sort state is not none, in every state;
\* new props start every category at none.
C6_AtMostOneSorted ==
    /\ [](Cardinality(SortedCategories(sorting)) <= 1)
    /\ [][(mounted' /\ (content' # content \/ objectKey' # objectKey)) =>
              SortedCategories(sorting') = {}]_vars

\* the second of two categories is sorted, the first is not
C6_Witness ==
    /\ mounted
    /\ Len(sorting) = 2
    /\ sorting[1].v = "none"
    /\ sorting[2].v = "ascending"

SortableCategories == {KeyAnimal, KeyFood}

\* a click on the sort button of the category (what ToggleSort leaves alone is
\* compared first)
ToggleSortStep(category) ==
    /\ UNCHANGED <<query, rowsDisplayed, mounted, categories>>
    /\ UNCHANGED <<objectKey, content, formattedContent>>
    /\ ToggleSort(category)

\* the search input handles the query it now holds
SetFilterQueryStep ==
    /\ query' # query
    /\ UNCHANGED <<sorting, rowsDisplayed, mounted, categories>>
    /\ SetFilterQuery(query')
SortStateOf(sortingArg, category) == GetProp(sortingArg, category)
NextInCycle(state) == IF state \in {"none", "descending"} THEN "ascending" ELSE "descending"

\* C7: a toggle takes the category from none or descending to ascending and
\* from ascending to descending, never to none; a category goes back to none
\* only when another category is toggled or the props are replaced.
C7_SortCycle ==
    [][\A category \in SortableCategories :
          /\ (~raised' /\ ToggleSortStep(category)) =>
                /\ SortStateOf(sorting', category) = NextInCycle(SortStateOf(sorting, category))
                /\ SortStateOf(sorting', category) # "none"
          /\ (/\ PropIndex(sorting, category) # 0
              /\ PropIndex(sorting', category) # 0
              /\ SortStateOf(sorting, category) # "none"
              /\ SortStateOf(sorting', category) = "none") =>
                \/ \E other \in SortableCategories \ {category} : ToggleSortStep(other)
                \/ \E props \in PropsChoices : ReplaceContent(props[1], props[2])]_vars

\* a category is descending in a table of several rows
C7_Witness ==
    /\ mounted
    /\ ~raised
    /\ PropIndex(sorting, KeyAnimal) # 0
    /\ SortStateOf(sorting, KeyAnimal) = "descending"
    /\ Len(filteredContent) >= 2

\* every row holds a string in the category
HoldStrings(rows, category) ==
    \A i \in 1..Len(rows) : GetProp(rows[i].props, category).t = "string"

\* the value of the category, lower-cased
LowerValue(row, category) == ToLowerCase(GetProp(row.props, category).s)

\* the same rows, each one once
IsPermutation(rows, others) ==
    /\ Len(rows) = Len(others)
    /\ {rows[i] : i \in 1..Len(rows)} = {others[i] : i \in 1..Len(others)}
    /\ Cardinality({rows[i].ref : i \in 1..Len(rows)}) = Len(rows)

\* C8: on rows that hold strings in the category, a toggle leaves the same
\* rows, in non-decreasing order of the lower-cased value when the category
\* becomes ascending and in non-increasing order when it becomes descending.
C8_ToggleSortsDisplayedRows ==
    [][\A category \in SortableCategories :
          (HoldStrings(filteredContent, category) /\ ToggleSortStep(category)) =>
              /\ ~raised'
              /\ IsPermutation(filteredContent', filteredContent)
              /\ SortStateOf(sorting', category) \in {"ascending", "descending"}
              /\ SortStateOf(sorting', category) = "ascending" =>
                    \A i \in 1..(Len(filteredContent') - 1) :
                        LocaleCompare(LowerValue(filteredContent'[i], category),
                                      LowerValue(filteredContent'[i + 1], category)) <= 0
              /\ SortStateOf(sorting', category) = "descending" =>
                    \A i \in 1..(Len(filteredContent') - 1) :
                        LocaleCompare(LowerValue(filteredContent'[i], category),
                                      LowerValue(filteredContent'[i + 1], category)) >= 0]_vars

\* a filtered content of several rows, in descending order of a category with
\* different values
C8_Witness ==
    /\ mounted
    /\ ~raised
    /\ query # <<>>
    /\ Len(filteredContent) >= 3
    /\ PropIndex(sorting, KeyFood) # 0
    /\ SortStateOf(sorting, KeyFood) = "descending"
    /\ HoldStrings(filteredContent, KeyFood)
    /\ LocaleCompare(LowerValue(filteredContent[1], KeyFood),
                     LowerValue(filteredContent[Len(filteredContent)], KeyFood)) > 0

\* every value of every row is a string
HoldOnlyStrings(rows) ==
    \A i \in 1..Len(rows) : \A j \in 1..Len(rows[i].props) : rows[i].props[j].v.t = "string"

\* the value that the active sort compares is a string in every row
SortedValuesAreStrings(rows, sortingArg) ==
    \A k \in 1..Len(sortingArg) : sortingArg[k].v # "none" => HoldStrings(rows, sortingArg[k].k)

\* a value of the row, lower-cased, contains the lower-cased query
Matches(row, queryArg) ==
    \E j \in 1..Len(row.props) :
        StringIncludes(ToLowerCase(row.props[j].v.s), ToLowerCase(queryArg))

MatchingRows(rows, queryArg) == {rows[i] : i \in {k \in 1..Len(rows) : Matches(rows[k], queryArg)}}

\* the rows are in the order they have in the formatted content
InFormattedOrder(rows) ==
    \A i \in 1..(Len(rows) - 1) : IndexOf(formattedContent, rows[i]) < IndexOf(formattedContent, rows[i + 1])

\* C9: on rows whose values are strings, a query keeps exactly the rows of
\* the formatted content that have a value containing the query, case
\* ignored; without an active sort they keep their order.
C9_FilterKeepsMatchingRows ==
    [][(/\ SetFilterQueryStep
        /\ HoldOnlyStrings(formattedContent)
        /\ SortedValuesAreStrings(formattedContent, sorting)) =>
           /\ ~raised'
           /\ {filteredContent'[i] : i \in 1..Len(filteredContent')} = MatchingRows(formattedContent, query')
           /\ Len(filteredContent') = Cardinality(MatchingRows(formattedContent, query'))
           /\ SortedCategories(sorting) = {} => InFormattedOrder(filteredContent')]_vars

\* the query MAN has kept some rows of an unsorted content and dropped others
C9_Witness ==
    /\ mounted
    /\ ~raised
    /\ query = <<"M", "A", "N">>
    /\ SortedCategories(sorting) = {}
    /\ HoldOnlyStrings(formattedContent)
    /\ Len(filteredContent) > 0
    /\ Len(filteredContent) < Len(formattedContent)

\* C10: on rows whose values are strings, the empty query keeps every row of
\* the formatted content, a row without properties too; without an active
\* sort the rows keep their order.
C10_EmptyQueryKeepsEveryRow ==
    [][(/\ query' = <<>>
        /\ SetFilterQueryStep
        /\ HoldOnlyStrings(formattedContent)
        /\ SortedValuesAreStrings(formattedContent, sorting)) =>
           /\ IsPermutation(filteredContent', formattedContent)
           /\ SortedCategories(sorting) = {} => filteredContent' = formattedContent]_vars

\* the rows are in the order of the direction on the lower-cased values of the
\* category, which are strings wherever two rows are compared
OrderedOn(rows, category, direction) ==
    \A i \in 1..(Len(rows) - 1) :
        /\ GetProp(rows[i].props, category).t = "string"
        /\ GetProp(rows[i + 1].props, category).t = "string"
        /\ direction = "ascending" =>
              LocaleCompare(LowerValue(rows[i], category), LowerValue(rows[i + 1], category)) <= 0
        /\ direction = "descending" =>
              LocaleCompare(LowerValue(rows[i], category), LowerValue(rows[i + 1], category)) >= 0

\* C11: a query typed while a category is sorted leaves the sort state as it
\* is, and the filtered content it leaves is ordered on that category in the
\* direction the category has: ascending stays ascending, descending stays
\* descending.
C11_FilterKeepsActiveSort ==
    [][SetFilterQueryStep =>
          /\ sorting' = sorting
          /\ \A k \in SortedCategories(sorting) :
                OrderedOn(filteredContent', sorting[k].k, sorting'[k].v)]_vars

\* the query n has kept rows of a content that is sorted in descending order
\* of a category whose values differ, other than in the order of the content
C11_Witness ==
    /\ mounted
    /\ ~raised
    /\ query = <<"n">>
    /\ PropIndex(sorting, KeyAnimal) # 0
    /\ SortStateOf(sorting, KeyAnimal) = "descending"
    /\ Len(filteredContent) >= 3
    /\ Len(filteredContent) < Len(formattedContent)
    /\ ~InFormattedOrder(filteredContent)
    /\ LocaleCompare(LowerValue(filteredContent[1], KeyAnimal),
                     LowerValue(filteredContent[Len(filteredContent)], KeyAnimal)) > 0

\* the property names that occur in some row
PropertyNames(rows) ==
    UNION {{rows[i].props[j].k : j \in 1..Len(rows[i].props)} : i \in 1..Len(rows)}

\* key occurs in a row, at a place before which other occurs nowhere: not in an
\* earlier row, not earlier in the same row
SeenBefore(rows, key, other) ==
    \E i \in 1..Len(rows) : \E j \in 1..Len(rows[i].props) :
        /\ rows[i].props[j].k = key
        /\ \A i2 \in 1..i : \A j2 \in 1..Len(rows[i2].props) :
              (i2 < i \/ j2 < j) => rows[i2].props[j2].k # other

CategoryKeys == [i \in 1..Len(categories) |-> categories[i].category]
AllNone(sortingArg) == \A i \in 1..Len(sortingArg) : sortingArg[i].v = "none"

\* C12: the categories have no duplicate, are exactly the property names that
\* occur in some row of the content, in the order of their first occurrence;
\* the sort state has exactly these keys, and every one is none when the
\* categories are derived.
C12_CategoriesAreOrderedUnion ==
    /\ (mounted => AllNone(sorting))
    /\ [](mounted =>
            /\ \A i \in 1..Len(CategoryKeys) : \A j \in 1..Len(CategoryKeys) :
                  i < j => /\ CategoryKeys[i] # CategoryKeys[j]
                           /\ SeenBefore(content, CategoryKeys[i], CategoryKeys[j])
            /\ {CategoryKeys[i] : i \in 1..Len(CategoryKeys)} = PropertyNames(content)
            /\ [i \in 1..Len(sorting) |-> sorting[i].k] = CategoryKeys)
    /\ [][(mounted' /\ (content' # content \/ objectKey' # objectKey)) => AllNone(sorting')]_vars

\* two categories, the second of which the first row does not have
C12_Witness ==
    /\ mounted
    /\ Len(content) >= 2
    /\ Len(content[1].props) = 1
    /\ CategoryKeys = <<KeyAnimal, KeyFood>>
    /\ AllNone(sorting)

\* the key with a space before every upper-case letter, that letter lower-cased
RECURSIVE SplitWords(_)
SplitWords(key) ==
    IF Len(key) = 0 THEN <<>>
    ELSE (IF Head(key) \in {"A", "B"} THEN <<" ", CharToLowerCase(Head(key))>> ELSE <<Head(key)>>)
            \o SplitWords(Tail(key))

\* the label of the claim: the words of the key, the first character upper-cased
ExpectedLabel(key) == <<CharToUpperCase(Head(SplitWords(key)))>> \o Tail(SplitWords(key))

\* C13: the label of every camelCase key is the key with a space before every
\* upper-case letter and that letter lower-cased, then its first character
\* upper-cased, however many upper-case letters the key has.
C13_LabelSplitsEveryUpperCase ==
    mounted => \A i \in 1..Len(categories) :
                  categories[i].formattedCategory = ExpectedLabel(categories[i].category)

\* value[sub]: the value of the property sub of an object that has it, and
\* the missing value otherwise
SubValue(value, sub) ==
    IF value.t = "object" /\ \E j \in 1..Len(value.props) : value.props[j].k = sub
    THEN (CHOOSE pr \in {value.props[j] : j \in 1..Len(value.props)} : pr.k = sub).v
    ELSE Undefined

\* the sub-key the objectKey gives for the property
FlattenKey(key) == (CHOOSE pr \in {objectKey.props[j] : j \in 1..Len(objectKey.props)} : pr.k = key).v
InFlattenMap(key) ==
    /\ objectKey.t = "object"
    /\ \E j \in 1..Len(objectKey.props) : objectKey.props[j].k = key

\* C14: the formatted content has one row per row of the content, in the same
\* order and with the same properties; a property of the objectKey holds
\* row[property][objectKey[property]], the missing value when the sub-key is
\* absent, resolved one level only; every other property holds its value.
C14_NormalizationFlattensOneLevel ==
    mounted =>
        /\ Len(formattedContent) = Len(content)
        /\ \A i \in 1..Len(content) :
              /\ Len(formattedContent[i].props) = Len(content[i].props)
              /\ \A j \in 1..Len(content[i].props) :
                    /\ formattedContent[i].props[j].k = content[i].props[j].k
                    /\ formattedContent[i].props[j].v =
                          IF InFlattenMap(content[i].props[j].k)
                          THEN SubValue(content[i].props[j].v, FlattenKey(content[i].props[j].k))
                          ELSE content[i].props[j].v

\* a content flattened to a missing value (the sub-key is absent), to a
\* sub-object of the sub-object, and to a string; another property is kept
C14_Witness ==
    /\ mounted
    /\ InFlattenMap(KeyAnimal)
    /\ Len(formattedContent) = 3
    /\ content[1].props[1].v.t = "object"
    /\ formattedContent[1].props[1].v = Undefined
    /\ formattedContent[2].props[1].v.t = "object"
    /\ formattedContent[3].props[1].v = JSString(<<"a", "m">>)
    /\ formattedContent[3].props[2] = content[3].props[2]

\* C15: a table rendered without objectKey, with a content that has a row
\* with a property, is mounted without an error, and its formatted content is
\* the content, every row unchanged.
C15_ObjectKeyIsOptional ==
    (objectKey.t = "undefined" /\ PropertyNames(content) # {}) =>
        /\ mounted
        /\ ~raised
        /\ Len(formattedContent) = Len(content)
        /\ \A i \in 1..Len(content) : formattedContent[i].props = content[i].props

\* C16: a click on the sort button of a category raises no error and leaves
\* every row of the filtered content in place, also when a row lacks the
\* property of the category or holds a number there.
C16_SortToleratesSchemaMismatch ==
    [][\A category \in SortableCategories :
          ToggleSortStep(category) =>
              /\ ~raised'
              /\ mounted'
              /\ IsPermutation(filteredContent', filteredContent)]_vars

\* the row passes the query: the empty query passes every row, another one the
\* rows with a value that contains it, case ignored
PassesQuery(row, queryArg) == queryArg = <<>> \/ Matches(row, queryArg)

\* C17: in every settled state of a table whose values are strings, the
\* filtered content holds exactly the rows of the formatted content that pass
\* the query the search input holds, also after new props.
C17_FilteredViewFollowsQuery ==
    (mounted /\ HoldOnlyStrings(formattedContent)) =>
        /\ \A i \in 1..Len(formattedContent) :
              PassesQuery(formattedContent[i], query) <=>
                  \E j \in 1..Len(filteredContent) : filteredContent[j] = formattedContent[i]
        /\ \A j \in 1..Len(filteredContent) :
              \E i \in 1..Len(formattedContent) : filteredContent[j] = formattedContent[i]

\* the row holds the number 42
HoldsFortyTwo(row) == \E j \in 1..Len(row.props) : row.props[j].v = JSNumber(42)

\* C18: a query raises no error whatever the values of the rows are (numbers
\* and missing values included), and the query 4 keeps the rows that hold the
\* number 42.
C18_FilterStringifiesValues ==
    [][SetFilterQueryStep =>
          /\ ~raised'
          /\ query' = <<"4">> =>
                \A i \in 1..Len(formattedContent) :
                    HoldsFortyTwo(formattedContent[i]) =>
                        \E j \in 1..Len(filteredContent') : filteredContent'[j] = formattedContent[i]]_vars

\* the color is a shorthand #xyz of three digits of base 16
IsHexShorthand(colorArg) ==
    /\ colorArg.t = "string"
    /\ Len(colorArg.s) = 4
    /\ colorArg.s[1] = "#"
    /\ \A i \in 2..4 : HexDigitValue(colorArg.s[i]) >= 0

\* the channel of the digit doubled: xx in base 16
DoubledChannel(c) == JSNumber(17 * HexDigitValue(c))

\* the theme of the full form #xxyyzz
ExpectedTheme(x, y, z) ==
    [bright |-> Rgba(DoubledChannel(x), DoubledChannel(y), DoubledChannel(z), <<"1">>),
     light |-> Rgba(DoubledChannel(x), DoubledChannel(y), DoubledChannel(z), <<"0", ".", "2">>),
     text |-> IF 2126 * 17 * HexDigitValue(x) + 7152 * 17 * HexDigitValue(y)
                    + 722 * 17 * HexDigitValue(z) > 1275000
              THEN "black" ELSE "white"]

\* C19: the theme of a shorthand color #xyz is the theme of #xxyyzz: bright and
\* light carry r = xx, g = yy, b = zz, and text is black exactly when the
\* relative luminance of these channels is above 0.5.
C19_ShorthandThemeIsFullFormTheme ==
    (mounted /\ IsHexShorthand(color)) =>
        colorTheme = ExpectedTheme(color.s[2], color.s[3], color.s[4])

\* the rows as a set
RowsOf(rows) == {rows[i] : i \in 1..Len(rows)}

\* C20: no operation of the user changes the formatted content, and on rows
\* whose values are strings a query leaves displayed the rows of the formatted
\* content that the query alone selects, whatever was typed before; the empty
\* query brings every row back.
C20_QueryResultIndependentOfHistory ==
    [][/\ (mounted' /\ content' = content /\ objectKey' = objectKey) =>
              formattedContent' = formattedContent
       /\ (/\ SetFilterQueryStep
           /\ HoldOnlyStrings(formattedContent)
           /\ SortedValuesAreStrings(formattedContent, sorting)) =>
              /\ RowsOf(filteredContent') =
                    {row \in RowsOf(formattedContent) : PassesQuery(row, query')}
              /\ query' = <<>> => RowsOf(filteredContent') = RowsOf(formattedContent)]_vars

====
